---- MODULE Spec2Model ----
(***************************************************************************)
(* Ledger state engine of backend-engineer-test: block validation          *)
(* (validation.ts), the PostgreSQL-backed ledger store and rollback engine *)
(* (database.ts) and the two mutating request handlers (routes.ts).        *)
(*                                                                         *)
(* A database transaction (BEGIN .. COMMIT) is one step of the model: the  *)
(* handlers interleave at their await points, i.e. between validation, the *)
(* atomic unit and the write of the in-memory height.                      *)
(***************************************************************************)
EXTENDS Integers, Sequences, FiniteSets, TLC

\* ------------------------------------------------------------------ bounds
\* Largest block height a request carries.
MaxHeight == 3
\* Largest number of atomic units (processBlock / rollbackToHeight) begun.
MaxUnits == 4
\* Number of request handlers that may be in flight at once (Spec).
NumHandlers == 2

\* ------------------------------------------------------------- payloads
Addresses == {"A", "B", "C"}

Output(address, value) == [address |-> address, value |-> value]
Input(txId, index) == [txId |-> txId, index |-> index]
Transaction(id, inputs, outputs) == [id |-> id, inputs |-> inputs, outputs |-> outputs]
Block(id, height, transactions) == [id |-> id, height |-> height, transactions |-> transactions]

\* The transactions a request body may carry.
Transactions ==
  { Transaction("t1", <<>>, <<Output("A", 100)>>),
    Transaction("t2", <<Input("t1", 0)>>, <<Output("B", 60), Output("C", 40)>>),
    Transaction("t3", <<Input("t1", 0)>>, <<Output("B", 100), Output("B", 0)>>),
    Transaction("t4", <<Input("t3", 0), Input("t3", 1)>>, <<Output("C", 100)>>),
    Transaction("t2", <<Input("t1", 0), Input("t1", 0)>>, <<Output("C", 100), Output("C", 100)>>),
    Transaction("t2", <<Input("t1", 0)>>, <<Output("B", 60)>>),
    Transaction("t2", <<Input("t1", 1)>>, <<Output("B", 100)>>) }

\* Largest number of transactions in a submitted block.
MaxTxs == 2

TransactionLists == UNION { [1..n -> Transactions] : n \in 1..MaxTxs }

Heights == 1..MaxHeight

\* A JavaScript number: an integer, or NaN.
Num(n) == [nan |-> FALSE, value |-> n]
NaN == [nan |-> TRUE, value |-> 0]
isNaN(x) == x.nan

\* The height query parameters a rollback request may carry.
HeightParams == { ToString(n) : n \in 0..MaxHeight } \cup {"abc"}

\* parseInt on HeightParams: the decimal numeral's value, NaN for no numeral.
parseInt(string) ==
  IF \E n \in 0..MaxHeight : ToString(n) = string
    THEN Num(CHOOSE n \in 0..MaxHeight : ToString(n) = string)
    ELSE NaN

\* ------------------------------------------------------------ validation
RECURSIVE join(_)
join(strings) ==
  IF strings = <<>> THEN "" ELSE Head(strings) \o join(Tail(strings))

\* SHA-256 hex digest, taken as collision free: a tagged copy of its input.
sha256hex(combined) == "sha256:" \o combined

calculateBlockId(height, transactionIds) ==
  sha256hex(ToString(height) \o join(transactionIds))

txIds(block) == [i \in 1..Len(block.transactions) |-> block.transactions[i].id]

validateBlockId(block) ==
  block.id = calculateBlockId(block.height, txIds(block))

Valid == [isValid |-> TRUE, error |-> ""]
Invalid(error) == [isValid |-> FALSE, error |-> error]

\* A validateHeight that refuses only a skipped height.
validateHeightAtMostNext(blockHeight, currentHeight) ==
  IF blockHeight > currentHeight + 1 THEN Invalid("Invalid height") ELSE Valid

validateHeight(blockHeight, currentHeight) ==
  IF blockHeight # currentHeight + 1 THEN Invalid("Invalid height") ELSE Valid

validateBlockIdFormat(block) ==
  IF ~validateBlockId(block) THEN Invalid("Invalid block ID") ELSE Valid

\* A validateRollbackHeight that refuses a depth of 2000 as well.
validateRollbackHeightBelowDepth(targetHeight, currentHeight) ==
  IF isNaN(targetHeight) \/ targetHeight.value < 1 THEN Invalid("Invalid height")
  ELSE IF targetHeight.value > currentHeight THEN Invalid("Invalid rollback height")
  ELSE IF currentHeight - targetHeight.value >= 2000 THEN Invalid("Rollback too far")
  ELSE Valid

validateRollbackHeight(targetHeight, currentHeight) ==
  IF isNaN(targetHeight) \/ targetHeight.value < 1 THEN Invalid("Invalid height")
  ELSE IF targetHeight.value > currentHeight THEN Invalid("Invalid rollback height")
  ELSE IF currentHeight - targetHeight.value > 2000 THEN Invalid("Rollback too far")
  ELSE Valid

\* ------------------------------------------------------------ the store
\* The tables of createTables. Rows of a table with a SERIAL key are kept in
\* insertion order; a database value db is the record of the five tables.
EmptyDB ==
  [ blocks |-> {},               \* {[id, height]}
    transactions |-> <<>>,       \* <<[id, block_id]>>
    transaction_inputs |-> <<>>, \* <<[transaction_id, input_tx_id, input_index]>>
    transaction_outputs |-> <<>>,\* <<[transaction_id, address, value, output_index, is_spent]>>
    address_balances |-> [a \in {} |-> 0] ] \* address -> balance, one entry per row

\* SELECT ... FROM transaction_outputs WHERE transaction_id = $1 AND output_index = $2
outputRows(db, txId, index) ==
  LET Match(row) == row.transaction_id = txId /\ row.output_index = index
  IN  SelectSeq(db.transaction_outputs, Match)

\* A getInputValue that takes a missing output for one of value 0.
getInputValueOrZero(db, txId, index) ==
  LET rows == outputRows(db, txId, index)
  IN  [found |-> TRUE, value |-> IF Len(rows) = 0 THEN 0 ELSE rows[1].value]

\* getInputValue: [found, value]; found FALSE models the throw 'Input not found'.
getInputValue(db, txId, index) ==
  LET rows == outputRows(db, txId, index)
  IN  IF Len(rows) = 0
        THEN [found |-> FALSE, value |-> 0]
        ELSE [found |-> TRUE, value |-> rows[1].value]

getAddressBalance(db, address) ==
  IF address \in DOMAIN db.address_balances THEN db.address_balances[address] ELSE 0

RECURSIVE sumInputs(_, _, _)
\* The loop of validateInputOutputBalance over tx.inputs, from input i on:
\* [found, value]: found FALSE as soon as one lookup throws, else the sum.
sumInputs(db, inputs, i) ==
  IF i > Len(inputs) THEN [found |-> TRUE, value |-> 0]
  ELSE LET got == getInputValue(db, inputs[i].txId, inputs[i].index)
           rest == sumInputs(db, inputs, i + 1)
       IN  IF ~got.found THEN got
           ELSE IF ~rest.found THEN rest
           ELSE [found |-> TRUE, value |-> got.value + rest.value]

RECURSIVE sumOutputs(_)
sumOutputs(outputs) ==
  IF outputs = <<>> THEN 0 ELSE Head(outputs).value + sumOutputs(Tail(outputs))

RECURSIVE validateInputOutputBalanceInBlock(_, _)
\* A validateInputOutputBalance that resolves the inputs of a transaction
\* against the outputs of the transactions before it in the block as well.
validateInputOutputBalanceInBlock(db, transactions) ==
  IF transactions = <<>> THEN Valid
  ELSE LET tx == Head(transactions)
           inputSum == sumInputs(db, tx.inputs, 1)
           created == [j \in 1..Len(tx.outputs) |->
                         [transaction_id |-> tx.id, address |-> tx.outputs[j].address,
                          value |-> tx.outputs[j].value, output_index |-> j - 1,
                          is_spent |-> FALSE]]
           seen == [db EXCEPT !.transaction_outputs = @ \o created]
       IN  IF Len(tx.inputs) = 0 THEN validateInputOutputBalanceInBlock(seen, Tail(transactions))
           ELSE IF ~inputSum.found THEN Invalid("Invalid input reference")
           ELSE IF inputSum.value # sumOutputs(tx.outputs) THEN Invalid("Invalid transaction balance")
           ELSE validateInputOutputBalanceInBlock(seen, Tail(transactions))

RECURSIVE validateInputOutputBalanceAtLeast(_, _)
\* A validateInputOutputBalance that lets a transaction pay out less than it
\* consumes.
validateInputOutputBalanceAtLeast(db, transactions) ==
  IF transactions = <<>> THEN Valid
  ELSE LET tx == Head(transactions)
           inputSum == sumInputs(db, tx.inputs, 1)
       IN  IF Len(tx.inputs) = 0 THEN validateInputOutputBalanceAtLeast(db, Tail(transactions))
           ELSE IF ~inputSum.found THEN Invalid("Invalid input reference")
           ELSE IF inputSum.value < sumOutputs(tx.outputs) THEN Invalid("Invalid transaction balance")
           ELSE validateInputOutputBalanceAtLeast(db, Tail(transactions))

RECURSIVE validateInputOutputBalance(_, _)
validateInputOutputBalance(db, transactions) ==
  IF transactions = <<>> THEN Valid
  ELSE LET tx == Head(transactions)
           inputSum == sumInputs(db, tx.inputs, 1)
       IN  IF Len(tx.inputs) = 0 THEN validateInputOutputBalance(db, Tail(transactions))
           ELSE IF ~inputSum.found THEN Invalid("Invalid input reference")
           ELSE IF inputSum.value # sumOutputs(tx.outputs) THEN Invalid("Invalid transaction balance")
           ELSE validateInputOutputBalance(db, Tail(transactions))

\* A validateBlock that checks the block id before the height.
validateBlockIdFirst(db, height, block) ==
  LET heightValidation == validateHeight(block.height, height)
      blockIdValidation == validateBlockIdFormat(block)
      balanceValidation == validateInputOutputBalance(db, block.transactions)
  IN  IF ~blockIdValidation.isValid THEN blockIdValidation
      ELSE IF ~heightValidation.isValid THEN heightValidation
      ELSE IF ~balanceValidation.isValid THEN balanceValidation
      ELSE Valid

validateBlock(db, height, block) ==
  LET heightValidation == validateHeight(block.height, height)
      blockIdValidation == validateBlockIdFormat(block)
      balanceValidation == validateInputOutputBalance(db, block.transactions)
  IN  IF ~heightValidation.isValid THEN heightValidation
      ELSE IF ~blockIdValidation.isValid THEN blockIdValidation
      ELSE IF ~balanceValidation.isValid THEN balanceValidation
      ELSE Valid

\* INSERT INTO address_balances VALUES ($1, $2)
\*   ON CONFLICT (address) DO UPDATE SET balance = address_balances.balance - $2
upsertBalanceMinus(balances, address, p2) ==
  IF address \in DOMAIN balances
    THEN [balances EXCEPT ![address] = @ - p2]
    ELSE balances @@ (address :> p2)

\* INSERT INTO address_balances VALUES ($1, $2)
\*   ON CONFLICT (address) DO UPDATE SET balance = address_balances.balance + $2
upsertBalancePlus(balances, address, p2) ==
  IF address \in DOMAIN balances
    THEN [balances EXCEPT ![address] = @ + p2]
    ELSE balances @@ (address :> p2)

\* UPDATE address_balances SET balance = balance + delta WHERE address = $1
updateBalance(balances, address, delta) ==
  IF address \in DOMAIN balances
    THEN [balances EXCEPT ![address] = @ + delta]
    ELSE balances

\* UPDATE transaction_outputs SET is_spent = flag WHERE transaction_id = $1 AND output_index = $2
setSpent(outputs, txId, index, flag) ==
  [i \in 1..Len(outputs) |->
     IF outputs[i].transaction_id = txId /\ outputs[i].output_index = index
       THEN [outputs[i] EXCEPT !.is_spent = flag]
       ELSE outputs[i]]

\* One pass of the input loop of processTransaction: the input row, the spent
\* flag, and the balance statement for the row found (params [address, -value]).
processInput(db, txId, input) ==
  LET d1 == [db EXCEPT !.transaction_inputs =
               Append(@, [transaction_id |-> txId, input_tx_id |-> input.txId,
                          input_index |-> input.index])]
      d2 == [d1 EXCEPT !.transaction_outputs = setSpent(@, input.txId, input.index, TRUE)]
      outputResult == outputRows(d2, input.txId, input.index)
  IN  IF Len(outputResult) > 0
        THEN [d2 EXCEPT !.address_balances =
                upsertBalanceMinus(@, outputResult[1].address, -outputResult[1].value)]
        ELSE d2

RECURSIVE processInputs(_, _, _, _)
processInputs(db, txId, inputs, i) ==
  IF i > Len(inputs) THEN db
  ELSE processInputs(processInput(db, txId, inputs[i]), txId, inputs, i + 1)

\* One pass of the output loop of processTransaction; i is the 0-based index.
processOutput(db, txId, output, i) ==
  [db EXCEPT
     !.transaction_outputs =
        Append(@, [transaction_id |-> txId, address |-> output.address,
                   value |-> output.value, output_index |-> i, is_spent |-> FALSE]),
     !.address_balances = upsertBalancePlus(@, output.address, output.value)]

RECURSIVE processOutputs(_, _, _, _)
processOutputs(db, txId, outputs, i) ==
  IF i >= Len(outputs) THEN db
  ELSE processOutputs(processOutput(db, txId, outputs[i + 1], i), txId, outputs, i + 1)

\* processTransaction: [ok, db]; ok is FALSE when the INSERT into transactions
\* violates the primary key, db then being the store at the throw.
processTransaction(db, tx, blockId) ==
  IF \E i \in 1..Len(db.transactions) : db.transactions[i].id = tx.id
    THEN [ok |-> FALSE, db |-> db]
    ELSE LET d1 == [db EXCEPT !.transactions = Append(@, [id |-> tx.id, block_id |-> blockId])]
             d2 == processInputs(d1, tx.id, tx.inputs, 1)
         IN  [ok |-> TRUE, db |-> processOutputs(d2, tx.id, tx.outputs, 0)]

RECURSIVE processTransactions(_, _, _)
processTransactions(db, transactions, blockId) ==
  IF transactions = <<>> THEN [ok |-> TRUE, db |-> db]
  ELSE LET r == processTransaction(db, Head(transactions), blockId)
       IN  IF r.ok THEN processTransactions(r.db, Tail(transactions), blockId) ELSE r

\* The statements of processBlock between BEGIN and COMMIT, on the
\* transaction's view of the store: [ok, db], ok FALSE when a statement throws
\* (blocks.id PRIMARY KEY, blocks.height UNIQUE, transactions.id PRIMARY KEY).
processBlockStatements(db, block) ==
  IF \E b \in db.blocks : b.id = block.id \/ b.height = block.height
    THEN [ok |-> FALSE, db |-> db]
    ELSE processTransactions(
           [db EXCEPT !.blocks = @ \cup {[id |-> block.id, height |-> block.height]}],
           block.transactions, block.id)

\* A catch block without its ROLLBACK: the statements stay.
abortUnitNoRollback(before, atThrow) == atThrow

\* What the catch block of a unit leaves: ROLLBACK discards the statements.
abortUnit(before, atThrow) == before

\* processBlock: [ok, db]. fault: the driver throws on the last statement
\* before COMMIT. ok FALSE is the rethrown error.
processBlock(db, block, fault) ==
  LET r == processBlockStatements(db, block)
  IN  IF r.ok /\ ~fault
        THEN [ok |-> TRUE, db |-> r.db]
        ELSE [ok |-> FALSE, db |-> abortUnit(db, r.db)]

\* ------------------------------------------------------------ rollback
RECURSIVE reverseOutputsTwice(_, _)
\* A first loop of rollbackTransaction that takes each output's value off twice.
reverseOutputsTwice(balances, rows) ==
  IF rows = <<>> THEN balances
  ELSE reverseOutputsTwice(
         updateBalance(balances, Head(rows).address, -(2 * Head(rows).value)), Tail(rows))

RECURSIVE reverseOutputs(_, _)
\* The first loop of rollbackTransaction: each output row's value is taken off
\* its address.
reverseOutputs(balances, rows) ==
  IF rows = <<>> THEN balances
  ELSE reverseOutputs(updateBalance(balances, Head(rows).address, -Head(rows).value), Tail(rows))

\* One pass of the second loop of rollbackTransaction, for one input row.
reverseInput(db, input) ==
  LET outputResult == outputRows(db, input.input_tx_id, input.input_index)
  IN  IF Len(outputResult) > 0
        THEN [db EXCEPT
                !.transaction_outputs = setSpent(@, input.input_tx_id, input.input_index, FALSE),
                !.address_balances = updateBalance(@, outputResult[1].address, outputResult[1].value)]
        ELSE db

RECURSIVE reverseInputs(_, _)
reverseInputs(db, rows) ==
  IF rows = <<>> THEN db ELSE reverseInputs(reverseInput(db, Head(rows)), Tail(rows))

rollbackTransaction(db, txId) ==
  LET OfTx(row) == row.transaction_id = txId
      NotOfTx(row) == row.transaction_id # txId
      NotTx(row) == row.id # txId
      outputsResult == SelectSeq(db.transaction_outputs, OfTx)
      d1 == [db EXCEPT !.address_balances = reverseOutputs(@, outputsResult)]
      inputsResult == SelectSeq(d1.transaction_inputs, OfTx)
      d2 == reverseInputs(d1, inputsResult)
  IN  [d2 EXCEPT
         !.transaction_inputs = SelectSeq(@, NotOfTx),
         !.transaction_outputs = SelectSeq(@, NotOfTx),
         !.transactions = SelectSeq(@, NotTx)]

RECURSIVE rollbackTransactions(_, _)
rollbackTransactions(db, rows) ==
  IF rows = <<>> THEN db
  ELSE rollbackTransactions(rollbackTransaction(db, Head(rows).id), Tail(rows))

\* rollbackBlock: the block's transactions in table order, then the block row.
rollbackBlock(db, block) ==
  LET InBlock(row) == row.block_id = block.id
      transactionsResult == SelectSeq(db.transactions, InBlock)
      d1 == rollbackTransactions(db, transactionsResult)
  IN  [d1 EXCEPT !.blocks = { b \in @ : b.id # block.id }]

RECURSIVE orderByHeightDesc(_)
orderByHeightDesc(rows) ==
  IF rows = {} THEN <<>>
  ELSE LET top == CHOOSE b \in rows : \A c \in rows : c.height <= b.height
       IN  <<top>> \o orderByHeightDesc(rows \ {top})

RECURSIVE rollbackBlocks(_, _)
rollbackBlocks(db, rows) ==
  IF rows = <<>> THEN db ELSE rollbackBlocks(rollbackBlock(db, Head(rows)), Tail(rows))

\* A rollbackToHeight that selects the blocks WHERE height >= $1.
rollbackFromHeightStatements(db, targetHeight) ==
  LET blocksResult == orderByHeightDesc({ b \in db.blocks : b.height >= targetHeight })
  IN  rollbackBlocks(db, blocksResult)

\* The statements of rollbackToHeight between BEGIN and COMMIT.
rollbackToHeightStatements(db, targetHeight) ==
  LET blocksResult == orderByHeightDesc({ b \in db.blocks : b.height > targetHeight })
  IN  rollbackBlocks(db, blocksResult)

\* rollbackToHeight: [ok, db]; fault as in processBlock.
rollbackToHeight(db, targetHeight, fault) ==
  LET after == rollbackToHeightStatements(db, targetHeight)
  IN  IF ~fault
        THEN [ok |-> TRUE, db |-> after]
        ELSE [ok |-> FALSE, db |-> abortUnit(db, after)]

setCurrentHeight(height) == height

\* ------------------------------------------------------------ the service
VARIABLES
  blocks, transactions, transaction_inputs, transaction_outputs, address_balances,
  currentHeight,  \* DatabaseManager.currentHeight
  req,            \* per handler: where it stands, its request, the state it began in
  reply,          \* per handler: the response it is sending
  units,          \* number of atomic units begun
  payloads,       \* history: the request bodies of the blocks now in the store
  undoable,       \* history: the state before the last operation, if a submitBlock
  roundTrip,      \* history: state before the last rollback, blocks left to re-apply
  rollbackCheck   \* a call of validateRollbackHeight: its arguments and result

dbvars == <<blocks, transactions, transaction_inputs, transaction_outputs, address_balances>>
histvars == <<payloads, undoable, roundTrip>>
vars == <<dbvars, currentHeight, req, reply, units, histvars, rollbackCheck>>

Handlers == 1..NumHandlers

\* The store as a database value, and the assignment of one to the store.
DB ==
  [ blocks |-> blocks, transactions |-> transactions,
    transaction_inputs |-> transaction_inputs,
    transaction_outputs |-> transaction_outputs,
    address_balances |-> address_balances ]

SetDB(db) ==
  /\ blocks' = db.blocks
  /\ transactions' = db.transactions
  /\ transaction_inputs' = db.transaction_inputs
  /\ transaction_outputs' = db.transaction_outputs
  /\ address_balances' = db.address_balances

NoBlock == Block("", 0, <<>>)
State(db, height) == [db |-> db, height |-> height]
NoState == State(EmptyDB, -1)
NoRoundTrip == [goal |-> NoState, todo |-> <<>>]
Idle == [pc |-> "idle", op |-> "none", block |-> NoBlock, targetHeight |-> 0,
         before |-> NoState]
\* A handler that has its response and is about to return.
Replying == [Idle EXCEPT !.pc = "replying"]
\* A response: the HTTP status and error, with the operation it answers; for a
\* rejected block, whether its height was the next one and whether it was the
\* body of a block of the store; for a rejected block of the next height, what
\* else the body was like: whether its id was the hash of its height and
\* transaction ids, whether one of its inputs resolved to no
\* stored output, whether one of its transactions with inputs that all resolve
\* had unequal sums, whether one of its inputs named an output that only
\* another transaction of the same body creates, and whether one of its inputs
\* resolved to a stored output of value 0.
Response(status, error, op) ==
  [status |-> status, error |-> error, op |-> op,
   nextHeight |-> FALSE, resubmitted |-> FALSE, rightId |-> FALSE,
   dangling |-> FALSE, mismatch |-> FALSE, inBlock |-> FALSE,
   zeroInput |-> FALSE]

NoReply == Response(0, "", "none")

AllIdle == \A s \in Handlers : req[s].pc = "idle"
\* A request is taken by the first handler that is free.
FirstFree(s) == req[s].pc = "idle" /\ \A t \in 1..(s - 1) : req[t].pc # "idle"

\* The request bodies of POST /blocks: a height, transactions, and as id the
\* hash of the height and the transaction ids (skew 0) or that of the height
\* after it (skew 1).
Requests ==
  { Block(calculateBlockId(height + skew, [i \in 1..Len(txs) |-> txs[i].id]), height, txs) :
      height \in Heights, txs \in TransactionLists, skew \in {0, 1} }

RECURSIVE ascending(_)
\* Block bodies in ascending order of height.
ascending(bodies) ==
  IF bodies = {} THEN <<>>
  ELSE LET low == CHOOSE b \in bodies : \A c \in bodies : b.height <= c.height
       IN  <<low>> \o ascending(bodies \ {low})

\* A call of validateRollbackHeight(targetHeight, currentHeight), before and
\* after it returns.
Call(targetHeight, height) ==
  [targetHeight |-> targetHeight, currentHeight |-> height, done |-> FALSE,
   result |-> Valid]
NoCheck == Call(NaN, 0)

Init ==
  /\ blocks = EmptyDB.blocks
  /\ transactions = EmptyDB.transactions
  /\ transaction_inputs = EmptyDB.transaction_inputs
  /\ transaction_outputs = EmptyDB.transaction_outputs
  /\ address_balances = EmptyDB.address_balances
  /\ currentHeight = 0
  /\ req = [s \in Handlers |-> Idle]
  /\ reply = [s \in Handlers |-> NoReply]
  /\ units = 0
  /\ payloads = {}
  /\ undoable = NoState
  /\ roundTrip = NoRoundTrip
  /\ rollbackCheck = NoCheck

RECURSIVE sumValues(_)
sumValues(rows) ==
  IF rows = <<>> THEN 0 ELSE Head(rows).value + sumValues(Tail(rows))

\* The input resolves to a stored output.
resolves(db, input) ==
  \E k \in 1..Len(db.transaction_outputs) :
    /\ db.transaction_outputs[k].transaction_id = input.txId
    /\ db.transaction_outputs[k].output_index = input.index

RECURSIVE referencedValue(_, _)
\* The sum of the values of the stored outputs the inputs reference.
referencedValue(db, inputs) ==
  IF inputs = <<>> THEN 0
  ELSE LET k == CHOOSE k \in 1..Len(db.transaction_outputs) :
                  /\ db.transaction_outputs[k].transaction_id = Head(inputs).txId
                  /\ db.transaction_outputs[k].output_index = Head(inputs).index
                  /\ \A l \in 1..(k - 1) :
                       \/ db.transaction_outputs[l].transaction_id # Head(inputs).txId
                       \/ db.transaction_outputs[l].output_index # Head(inputs).index
       IN  db.transaction_outputs[k].value + referencedValue(db, Tail(inputs))

\* Some input of the body resolves to no stored output.
hasDanglingInput(db, block) ==
  \E i \in 1..Len(block.transactions) :
    \E j \in 1..Len(block.transactions[i].inputs) :
      ~resolves(db, block.transactions[i].inputs[j])

\* Some transaction of the body has inputs, all of them resolving, whose
\* referenced values do not sum to the sum of its output values.
hasMismatch(db, block) ==
  \E i \in 1..Len(block.transactions) :
    LET tx == block.transactions[i]
    IN  /\ Len(tx.inputs) > 0
        /\ \A j \in 1..Len(tx.inputs) : resolves(db, tx.inputs[j])
        /\ referencedValue(db, tx.inputs) # sumValues(tx.outputs)

\* Some input of the body names an output that is not stored and that another
\* transaction of the same body creates.
hasInBlockInput(db, block) ==
  \E i, k \in 1..Len(block.transactions) :
    \E j \in 1..Len(block.transactions[i].inputs) :
      LET input == block.transactions[i].inputs[j]
      IN  /\ i # k
          /\ input.txId = block.transactions[k].id
          /\ input.index < Len(block.transactions[k].outputs)
          /\ ~resolves(db, input)

\* Some input of the body resolves to a stored output of value 0.
hasZeroValueInput(db, block) ==
  \E i \in 1..Len(block.transactions) :
    \E j \in 1..Len(block.transactions[i].inputs) :
      LET input == block.transactions[i].inputs[j]
      IN  \E k \in 1..Len(db.transaction_outputs) :
            /\ db.transaction_outputs[k].transaction_id = input.txId
            /\ db.transaction_outputs[k].output_index = input.index
            /\ db.transaction_outputs[k].value = 0

\* The 400 reply of POST /blocks to a body that validateBlock refuses.
BadRequest(block) ==
  LET refused == [Response(400, validateBlock(DB, currentHeight, block).error, "submit")
                    EXCEPT !.resubmitted = (block \in payloads)]
  IN  IF block.height # currentHeight + 1 THEN refused
      ELSE [refused EXCEPT
              !.nextHeight = TRUE,
              !.rightId = (block.id = calculateBlockId(block.height, txIds(block))),
              !.dangling = hasDanglingInput(DB, block),
              !.mismatch = hasMismatch(DB, block),
              !.inBlock = hasInBlockInput(DB, block),
              !.zeroInput = hasZeroValueInput(DB, block)]

\* POST /blocks when validateBlock fails: the 400 reply, nothing else.
RejectBlock(s) ==
  /\ FirstFree(s)
  /\ \E response \in { BadRequest(block) :
                         block \in { b \in Requests :
                                      ~validateBlock(DB, currentHeight, b).isValid } } :
       reply' = [reply EXCEPT ![s] = response]
  /\ req' = [req EXCEPT ![s] = Replying]
  /\ UNCHANGED <<dbvars, currentHeight, units, histvars, rollbackCheck>>

\* POST /blocks when validateBlock passes: the handler stands before processBlock.
AcceptBlock(s) ==
  /\ FirstFree(s)
  /\ units < MaxUnits
  /\ \E block \in Requests :
       /\ validateBlock(DB, currentHeight, block).isValid
       /\ req' = [req EXCEPT ![s] =
            [pc |-> "validated", op |-> "submit", block |-> block,
             targetHeight |-> 0, before |-> State(DB, currentHeight)]]
  /\ units' = units + 1
  /\ UNCHANGED <<dbvars, currentHeight, reply, histvars, rollbackCheck>>

\* POST /blocks had setCurrentHeight been called before processBlock.
ProcessBlockHeightFirst(s) ==
  /\ req[s].pc = "validated"
  /\ req[s].op = "submit"
  /\ currentHeight' = setCurrentHeight(req[s].block.height)
  /\ \E fault \in BOOLEAN :
       LET r == processBlock(DB, req[s].block, fault)
       IN  /\ SetDB(r.db)
           /\ IF r.ok
                THEN /\ req' = [req EXCEPT ![s].pc = "committed"]
                     /\ payloads' = payloads \cup {req[s].block}
                     /\ UNCHANGED reply
                ELSE /\ req' = [req EXCEPT ![s] = Replying]
                     /\ reply' = [reply EXCEPT ![s] =
                                    Response(500, "Internal server error", "submit")]
                     /\ UNCHANGED payloads
  /\ UNCHANGED <<units, undoable, roundTrip, rollbackCheck>>

\* await this.db.processBlock(block): the atomic unit, then either the 500 reply
\* of the catch block or the handler standing before setCurrentHeight.
ProcessBlock(s) ==
  /\ req[s].pc = "validated"
  /\ req[s].op = "submit"
  /\ \E fault \in BOOLEAN :
       LET r == processBlock(DB, req[s].block, fault)
       IN  /\ SetDB(r.db)
           /\ IF r.ok
                THEN /\ req' = [req EXCEPT ![s].pc = "committed"]
                     /\ payloads' = payloads \cup {req[s].block}
                     /\ UNCHANGED reply
                ELSE /\ req' = [req EXCEPT ![s] = Replying]
                     /\ reply' = [reply EXCEPT ![s] =
                                    Response(500, "Internal server error", "submit")]
                     /\ UNCHANGED payloads
  /\ UNCHANGED <<currentHeight, units, undoable, roundTrip, rollbackCheck>>

\* await this.db.setCurrentHeight(block.height), and the 200 reply.
BlockProcessed(s) ==
  /\ req[s].pc = "committed"
  /\ req[s].op = "submit"
  /\ currentHeight' = setCurrentHeight(req[s].block.height)
  /\ req' = [req EXCEPT ![s] = Replying]
  /\ reply' = [reply EXCEPT ![s] = Response(200, "", "submit")]
  /\ undoable' = req[s].before
  /\ roundTrip' =
       IF roundTrip.todo # <<>> /\ Head(roundTrip.todo) = req[s].block
         THEN [roundTrip EXCEPT !.todo = Tail(@)]
         ELSE NoRoundTrip
  /\ UNCHANGED <<dbvars, units, payloads, rollbackCheck>>

\* POST /rollback when validateRollbackHeight fails: the 400 reply.
RejectRollback(s) ==
  /\ FirstFree(s)
  /\ \E height \in HeightParams :
       LET validationResult == validateRollbackHeight(parseInt(height), currentHeight)
       IN  /\ ~validationResult.isValid
           /\ reply' = [reply EXCEPT ![s] =
                          Response(400, validationResult.error, "rollback")]
  /\ req' = [req EXCEPT ![s] = Replying]
  /\ UNCHANGED <<dbvars, currentHeight, units, histvars, rollbackCheck>>

\* POST /rollback when it passes: the handler stands before rollbackToHeight.
AcceptRollback(s) ==
  /\ FirstFree(s)
  /\ units < MaxUnits
  /\ \E height \in HeightParams :
       LET targetHeight == parseInt(height)
       IN  /\ validateRollbackHeight(targetHeight, currentHeight).isValid
           /\ req' = [req EXCEPT ![s] =
                [pc |-> "validated", op |-> "rollback", block |-> NoBlock,
                 targetHeight |-> targetHeight.value,
                 before |-> State(DB, currentHeight)]]
  /\ units' = units + 1
  /\ UNCHANGED <<dbvars, currentHeight, reply, histvars, rollbackCheck>>

\* await this.db.rollbackToHeight(targetHeight): the atomic unit.
RollbackToHeight(s) ==
  /\ req[s].pc = "validated"
  /\ req[s].op = "rollback"
  /\ \E fault \in BOOLEAN :
       LET r == rollbackToHeight(DB, req[s].targetHeight, fault)
           kept == { p \in payloads : \E b \in r.db.blocks : b.id = p.id }
       IN  /\ SetDB(r.db)
           /\ payloads' = kept
           /\ IF r.ok
                THEN /\ req' = [req EXCEPT ![s].pc = "committed"]
                     /\ roundTrip' = [goal |-> State(DB, currentHeight),
                                      todo |-> ascending(payloads \ kept)]
                     /\ UNCHANGED reply
                ELSE /\ req' = [req EXCEPT ![s] = Replying]
                     /\ reply' = [reply EXCEPT ![s] =
                                    Response(500, "Internal server error", "rollback")]
                     /\ UNCHANGED roundTrip
  /\ UNCHANGED <<currentHeight, units, undoable, rollbackCheck>>

\* await this.db.setCurrentHeight(targetHeight), and the 200 reply.
RolledBack(s) ==
  /\ req[s].pc = "committed"
  /\ req[s].op = "rollback"
  /\ currentHeight' = setCurrentHeight(req[s].targetHeight)
  /\ req' = [req EXCEPT ![s] = Replying]
  /\ reply' = [reply EXCEPT ![s] = Response(200, "", "rollback")]
  /\ undoable' = NoState
  /\ UNCHANGED <<dbvars, units, payloads, roundTrip, rollbackCheck>>

\* The handler returns: its response is sent and it is free again.
Replied(s) ==
  /\ req[s].pc = "replying"
  /\ req' = [req EXCEPT ![s] = Idle]
  /\ reply' = [reply EXCEPT ![s] = NoReply]
  /\ UNCHANGED <<dbvars, currentHeight, units, histvars, rollbackCheck>>

\* The handlers as the event loop runs them: any of them takes its next step.
\* A request that validation rejects writes nothing and is left to SpecSeq.
Next ==
  \E s \in Handlers :
    \/ AcceptBlock(s)
    \/ ProcessBlock(s)
    \/ BlockProcessed(s)
    \/ AcceptRollback(s)
    \/ RollbackToHeight(s)
    \/ RolledBack(s)
    \/ Replied(s)

Spec == Init /\ [][Next]_vars

\* Requests served one at a time: a request arrives only when none is in flight.
NextSeq ==
  \/ AllIdle /\ RejectBlock(1)
  \/ AllIdle /\ AcceptBlock(1)
  \/ ProcessBlock(1)
  \/ BlockProcessed(1)
  \/ AllIdle /\ RejectRollback(1)
  \/ AllIdle /\ AcceptRollback(1)
  \/ RollbackToHeight(1)
  \/ RolledBack(1)
  \/ Replied(1)

SpecSeq == Init /\ [][NextSeq]_vars

\* validateRollbackHeight on its own, called with target heights and current
\* heights around the limits it tests.
CheckedHeights == (0..3) \cup (1999..2002) \cup {2500}
CheckedTargets ==
  {NaN} \cup { Num(n) : n \in (-1..3) \cup (399..401) \cup (499..502)
                             \cup (1999..2001) \cup (2499..2501) }

InitRollbackHeight ==
  /\ blocks = EmptyDB.blocks
  /\ transactions = EmptyDB.transactions
  /\ transaction_inputs = EmptyDB.transaction_inputs
  /\ transaction_outputs = EmptyDB.transaction_outputs
  /\ address_balances = EmptyDB.address_balances
  /\ currentHeight = 0
  /\ req = [s \in Handlers |-> Idle]
  /\ reply = [s \in Handlers |-> NoReply]
  /\ units = 0
  /\ payloads = {}
  /\ undoable = NoState
  /\ roundTrip = NoRoundTrip
  /\ rollbackCheck \in { Call(t, c) : t \in CheckedTargets, c \in CheckedHeights }

ValidateRollbackHeight ==
  /\ ~rollbackCheck.done
  /\ rollbackCheck' =
       [rollbackCheck EXCEPT
          !.done = TRUE,
          !.result = validateRollbackHeight(rollbackCheck.targetHeight,
                                            rollbackCheck.currentHeight)]
  /\ UNCHANGED <<dbvars, currentHeight, req, reply, units, histvars>>

NextRollbackHeight == ValidateRollbackHeight

SpecRollbackHeight == InitRollbackHeight /\ [][NextRollbackHeight]_vars

\* ------------------------------------------------------------ properties
\* The sum of the values of the persisted outputs to an address that are unspent.
unspentValue(db, address) ==
  LET Unspent(row) == row.address = address /\ ~row.is_spent
  IN  sumValues(SelectSeq(db.transaction_outputs, Unspent))

Range(rows) == { rows[i] : i \in 1..Len(rows) }

\* The blocks of the worked example, and the ledger after the first of them.
ExampleBlock1 ==
  Block(calculateBlockId(1, <<"t1">>), 1,
        <<Transaction("t1", <<>>, <<Output("A", 100)>>)>>)
ExampleBlock2 ==
  Block(calculateBlockId(2, <<"t2">>), 2,
        <<Transaction("t2", <<Input("t1", 0)>>, <<Output("B", 60), Output("C", 40)>>)>>)
AfterExampleBlock1(db) ==
  /\ db.blocks = {[id |-> ExampleBlock1.id, height |-> 1]}
  /\ getAddressBalance(db, "A") = 100
  /\ getAddressBalance(db, "B") = 0
  /\ getAddressBalance(db, "C") = 0

\* C1: with no request in flight, after any sequence of successful submitBlock
\* and rollback operations, getBalance(a) is, for every address a, the sum of
\* the values of the persisted outputs to a whose spent flag is false.
C1_BalanceIsUnspentSum ==
  AllIdle => \A a \in Addresses : getAddressBalance(DB, a) = unspentValue(DB, a)

RECURSIVE consumedValue(_, _, _)
\* The value the inputs consume from outputs to an address, each input looked
\* up in db; an input that resolves to no output consumes nothing.
consumedValue(db, inputs, address) ==
  IF inputs = <<>> THEN 0
  ELSE LET rows == outputRows(db, Head(inputs).txId, Head(inputs).index)
           here == IF Len(rows) > 0 /\ rows[1].address = address THEN rows[1].value ELSE 0
       IN  here + consumedValue(db, Tail(inputs), address)

RECURSIVE createdValue(_, _)
createdValue(outputs, address) ==
  IF outputs = <<>> THEN 0
  ELSE (IF Head(outputs).address = address THEN Head(outputs).value ELSE 0)
       + createdValue(Tail(outputs), address)

RECURSIVE netEffect(_, _, _)
\* What the transactions of a block should add to the balance of an address.
netEffect(db, txs, address) ==
  IF txs = <<>> THEN 0
  ELSE createdValue(Head(txs).outputs, address)
       - consumedValue(db, Head(txs).inputs, address)
       + netEffect(db, Tail(txs), address)

\* A step in which handler s commits the atomic unit of its submitted block.
CommitsBlock(s) ==
  req[s].pc = "validated" /\ req[s].op = "submit" /\ req'[s].pc = "committed"

\* C2: applying a block takes the value of every output its inputs consume off
\* that output's address and adds the value of every output it creates to that
\* output's address; in the worked example the second block leaves A=0, B=60, C=40.
C2_ApplyDebitsAndCredits ==
  [][\A s \in Handlers :
       CommitsBlock(s) =>
         /\ \A a \in Addresses :
              getAddressBalance(DB', a) =
                getAddressBalance(DB, a) + netEffect(DB, req[s].block.transactions, a)
         /\ (AfterExampleBlock1(DB) /\ req[s].block = ExampleBlock2) =>
              /\ getAddressBalance(DB', "A") = 0
              /\ getAddressBalance(DB', "B") = 60
              /\ getAddressBalance(DB', "C") = 40]_vars

\* Two database values that show the same ledger: balances, output rows with
\* their spent flags, blocks and transactions.
SameLedger(d1, d2) ==
  /\ \A a \in Addresses : getAddressBalance(d1, a) = getAddressBalance(d2, a)
  /\ Range(d1.transaction_outputs) = Range(d2.transaction_outputs)
  /\ d1.blocks = d2.blocks
  /\ Range(d1.transactions) = Range(d2.transactions)

\* A step in which handler s completes a rollback.
CompletesRollback(s) ==
  req[s].pc = "committed" /\ req[s].op = "rollback" /\ req'[s].pc = "replying"

\* C3: a rollback to height h that follows a submitBlock accepted at height h
\* restores the ledger and the height of the state the block was submitted in;
\* in the worked example rolling back to 1 gives A=100, B=0, C=0, height 1.
C3_RollbackInvertsApply ==
  [][\A s \in Handlers :
       (CompletesRollback(s) /\ undoable # NoState /\ req[s].targetHeight = undoable.height) =>
         /\ SameLedger(DB', undoable.db)
         /\ currentHeight' = undoable.height
         /\ AfterExampleBlock1(undoable.db) =>
              /\ getAddressBalance(DB', "A") = 100
              /\ getAddressBalance(DB', "B") = 0
              /\ getAddressBalance(DB', "C") = 0
              /\ currentHeight' = 1]_vars

\* A step in which handler s completes a submitBlock.
CompletesBlock(s) ==
  req[s].pc = "committed" /\ req[s].op = "submit" /\ req'[s].pc = "replying"

\* C4: after a rollback from height n to height k, each block of heights
\* k+1..n is accepted again in order, and when the last is applied every
\* balance and the height are those of the state before the rollback.
C4_RoundTrip ==
  [][/\ (AllIdle /\ roundTrip.todo # <<>>) =>
          /\ validateBlock(DB, currentHeight, Head(roundTrip.todo)).isValid
          /\ processBlockStatements(DB, Head(roundTrip.todo)).ok
     /\ \A s \in Handlers :
          (CompletesBlock(s) /\ roundTrip.todo = <<req[s].block>>) =>
            /\ \A a \in Addresses :
                 getAddressBalance(DB', a) = getAddressBalance(roundTrip.goal.db, a)
            /\ currentHeight' = roundTrip.goal.height]_vars

\* C5: no output is referenced by more than one committed input.
C5_OutputConsumedOnce ==
  \A i, j \in 1..Len(transaction_inputs) :
    (/\ transaction_inputs[i].input_tx_id = transaction_inputs[j].input_tx_id
     /\ transaction_inputs[i].input_index = transaction_inputs[j].input_index) => i = j

\* A step in which the atomic unit of handler s throws.
UnitFails(s) == req[s].pc = "validated" /\ req'[s].pc = "replying"

\* A step in which validation refuses the request handler s has taken.
Refuses(s) == req[s].pc = "idle" /\ req'[s].pc = "replying"

\* C6: a request that validation rejects, and a unit that fails part-way, leave
\* the store and the height as they were when the request began.
C6_FailureLeavesStateUnchanged ==
  [][\A s \in Handlers :
       /\ Refuses(s) =>
            /\ reply'[s].status = 400
            /\ DB' = DB
            /\ currentHeight' = currentHeight
       /\ UnitFails(s) =>
            /\ reply'[s].status = 500
            /\ DB' = req[s].before.db
            /\ currentHeight' = req[s].before.height
       /\ (req[s].pc = "replying" /\ reply[s].status # 200) =>
            /\ DB' = DB
            /\ currentHeight' = currentHeight]_vars

\* A submitBlock whose unit threw after earlier blocks were committed.
C6_Witness ==
  \E s \in Handlers :
    /\ req[s].pc = "replying"
    /\ reply[s] = Response(500, "Internal server error", "submit")
    /\ currentHeight >= 1
    /\ blocks # {}

\* C7: the height changes only in the step that completes an operation whose
\* unit has committed, and then to block.height or to the rollback target; while
\* the unit has not committed, and when it aborts, the height is the one the
\* request began with.
C7_HeightWrittenAfterCommit ==
  [][/\ (currentHeight' # currentHeight) =>
          \E s \in Handlers : req[s].pc = "committed" /\ req'[s].pc = "replying"
     /\ \A s \in Handlers :
          /\ CompletesBlock(s) =>
               /\ currentHeight' = req[s].block.height
               /\ [id |-> req[s].block.id, height |-> req[s].block.height] \in blocks
               /\ reply'[s].status = 200
          /\ CompletesRollback(s) =>
               /\ currentHeight' = req[s].targetHeight
               /\ \A b \in blocks : b.height <= req[s].targetHeight
               /\ reply'[s].status = 200
          /\ (req[s].pc = "validated") => currentHeight = req[s].before.height
          /\ UnitFails(s) => currentHeight' = req[s].before.height]_vars

\* A rollback completed after two blocks: the height is the target.
C7_Witness ==
  \E s \in Handlers :
    /\ req[s].pc = "replying"
    /\ reply[s] = Response(200, "", "rollback")
    /\ currentHeight = 1
    /\ units >= 3

\* C8: at most one submitBlock / rollback sequence is in progress at any time.
C8_OneMutationInProgress ==
  Cardinality({ s \in Handlers : req[s].pc \in {"validated", "committed"} }) <= 1

\* C9: with no request in flight the height is the largest committed block
\* height (0 if none) and the committed heights are exactly 1..height.
C9_HeightTopsContiguousChain ==
  AllIdle =>
    /\ \A b \in blocks : b.height <= currentHeight
    /\ currentHeight = 0 \/ \E b \in blocks : b.height = currentHeight
    /\ { b.height : b \in blocks } = 1..currentHeight

\* A step in which handler s has its block pass validation.
AcceptsBlock(s) ==
  req[s].pc = "idle" /\ req'[s].pc = "validated" /\ req'[s].op = "submit"

\* C10: a block is rejected with 'Invalid height' exactly when its height is not
\* currentHeight + 1, a block already in the store always is, the rejection
\* changes neither store nor height, and an accepted block has the next height.
C10_WrongHeightRejected ==
  [][\A s \in Handlers :
       /\ (Refuses(s) /\ reply'[s].op = "submit") =>
            /\ (~reply'[s].nextHeight \/ reply'[s].resubmitted) =>
                 reply'[s].error = "Invalid height"
            /\ reply'[s].error = "Invalid height" => ~reply'[s].nextHeight
            /\ DB' = DB
            /\ currentHeight' = currentHeight
       /\ AcceptsBlock(s) =>
            /\ req'[s].block.height = currentHeight + 1
            /\ req'[s].block \notin payloads]_vars

\* A block of the store was submitted again and refused for its height.
C10_Witness ==
  \E s \in Handlers :
    /\ req[s].pc = "replying"
    /\ reply[s].status = 400
    /\ reply[s].error = "Invalid height"
    /\ reply[s].resubmitted

\* C11: validateBlock reports the first failing check in the order height, block
\* id, balance: a body with a wrong height is refused with 'Invalid height'
\* whatever its id and transactions, a body with the next height and a wrong id
\* with 'Invalid block ID' whatever its transactions, and a body refused with
\* the next height and the right id carries an error of the balance check.
C11_FirstFailingCheckReported ==
  [][\A s \in Handlers :
       (Refuses(s) /\ reply'[s].op = "submit") =>
         /\ ~reply'[s].nextHeight => reply'[s].error = "Invalid height"
         /\ (reply'[s].nextHeight /\ ~reply'[s].rightId) =>
              reply'[s].error = "Invalid block ID"
         /\ (reply'[s].nextHeight /\ reply'[s].rightId) =>
              /\ reply'[s].error \in {"Invalid input reference", "Invalid transaction balance"}
              /\ reply'[s].dangling \/ reply'[s].mismatch]_vars

\* A body with the next height, a wrong id and a dangling input was refused
\* for its id.
C11_Witness ==
  \E s \in Handlers :
    /\ req[s].pc = "replying"
    /\ reply[s].error = "Invalid block ID"
    /\ reply[s].nextHeight
    /\ reply[s].dangling

\* The transaction has no inputs, or its inputs all resolve to stored outputs
\* whose values sum to the sum of its output values.
Balanced(db, tx) ==
  \/ Len(tx.inputs) = 0
  \/ /\ \A j \in 1..Len(tx.inputs) : resolves(db, tx.inputs[j])
     /\ referencedValue(db, tx.inputs) = sumValues(tx.outputs)

\* C12: a body passes validation only if every transaction of it that has
\* inputs references stored values summing exactly to its output sum; a body
\* with the next height and the right id whose only fault is such a mismatch is
\* refused with 'Invalid transaction balance' and nothing is written; a body
\* whose transactions with inputs all balance is not refused for its balance,
\* whatever the output sums of its transactions without inputs.
C12_BalanceEquation ==
  [][\A s \in Handlers :
       /\ AcceptsBlock(s) =>
            \A i \in 1..Len(req'[s].block.transactions) :
              Balanced(DB, req'[s].block.transactions[i])
       /\ (Refuses(s) /\ reply'[s].op = "submit") =>
            /\ (/\ reply'[s].nextHeight /\ reply'[s].rightId
                /\ reply'[s].mismatch /\ ~reply'[s].dangling) =>
                 reply'[s].error = "Invalid transaction balance"
            /\ reply'[s].error = "Invalid transaction balance" =>
                 /\ reply'[s].mismatch
                 /\ DB' = DB
                 /\ currentHeight' = currentHeight
            /\ (reply'[s].nextHeight /\ reply'[s].rightId) =>
                 reply'[s].mismatch \/ reply'[s].dangling]_vars

\* A body with the next height and the right id was refused for a transaction
\* whose inputs sum to another value than its outputs.
C12_Witness ==
  \E s \in Handlers :
    /\ req[s].pc = "replying"
    /\ reply[s].error = "Invalid transaction balance"
    /\ reply[s].mismatch
    /\ ~reply[s].dangling
    /\ blocks # {}

\* C13: a body with an input that resolves to no stored output never passes
\* validation; when that is its only fault it is refused with 'Invalid input
\* reference', an error no body gets whose inputs all resolve (an output of
\* value 0 resolves), and the refusal writes no row, balance or height.
C13_DanglingInputRejected ==
  [][\A s \in Handlers :
       /\ AcceptsBlock(s) => ~hasDanglingInput(DB, req'[s].block)
       /\ (Refuses(s) /\ reply'[s].op = "submit") =>
            /\ (/\ reply'[s].nextHeight /\ reply'[s].rightId
                /\ reply'[s].dangling /\ ~reply'[s].mismatch) =>
                 reply'[s].error = "Invalid input reference"
            /\ reply'[s].error = "Invalid input reference" =>
                 /\ reply'[s].dangling
                 /\ DB' = DB
                 /\ currentHeight' = currentHeight]_vars

\* A body was refused for a dangling input although another of its inputs
\* resolved to an output of value 0.
C13_Witness ==
  \E s \in Handlers :
    /\ req[s].pc = "replying"
    /\ reply[s].error = "Invalid input reference"
    /\ reply[s].dangling
    /\ reply[s].zeroInput

\* C14: validateRollbackHeight(target, current) accepts exactly when target is
\* a number with 1 <= target <= current and current - target <= 2000; a NaN or
\* non-positive target, a target above current and a depth above 2000 each get
\* an error of their own; with current 2500, target 400 is refused and targets
\* 501 and 500 (depth 2000) are accepted.
C14_RollbackHeightWindow ==
  rollbackCheck.done =>
    LET t == rollbackCheck.targetHeight
        c == rollbackCheck.currentHeight
        r == rollbackCheck.result
        positive == ~isNaN(t) /\ t.value >= 1
    IN  /\ r.isValid <=> (positive /\ t.value <= c /\ c - t.value <= 2000)
        /\ ~positive => r.error = "Invalid height"
        /\ (positive /\ t.value > c) => r.error = "Invalid rollback height"
        /\ (positive /\ t.value <= c /\ c - t.value > 2000) => r.error = "Rollback too far"
        /\ (c = 2500 /\ t = Num(400)) => ~r.isValid
        /\ (c = 2500 /\ t = Num(501)) => r.isValid
        /\ (c = 2500 /\ t = Num(500)) => r.isValid

\* The call with current height 2500 and target 500, a depth of exactly 2000,
\* has returned valid.
C14_Witness ==
  /\ rollbackCheck.done
  /\ rollbackCheck.currentHeight = 2500
  /\ rollbackCheck.targetHeight = Num(500)
  /\ rollbackCheck.result = Valid

\* C15: a unit of submitBlock never commits an input whose referenced output
\* is not in the store: every input row of the store references a stored output.
C15_NoCommittedDanglingInput ==
  \A i \in 1..Len(transaction_inputs) :
    \E k \in 1..Len(transaction_outputs) :
      /\ transaction_outputs[k].transaction_id = transaction_inputs[i].input_tx_id
      /\ transaction_outputs[k].output_index = transaction_inputs[i].input_index

\* C16: after any sequence of accepted submitBlock operations and successful
\* rollbacks, every address balance is greater than or equal to 0.
C16_BalancesNonNegative ==
  \A a \in DOMAIN address_balances : address_balances[a] >= 0

\* A block that paid to B was applied and rolled back: B's balance row is back
\* at 0 and the store holds block 1 only.
C16_Witness ==
  /\ AllIdle
  /\ "B" \in DOMAIN address_balances
  /\ address_balances["B"] = 0
  /\ { b.height : b \in blocks } = {1}
  /\ currentHeight = 1

\* C17: a stored output's spent flag is true if and only if some input row of
\* the store references it.
C17_SpentIffReferenced ==
  \A k \in 1..Len(transaction_outputs) :
    transaction_outputs[k].is_spent <=>
      \E i \in 1..Len(transaction_inputs) :
        /\ transaction_inputs[i].input_tx_id = transaction_outputs[k].transaction_id
        /\ transaction_inputs[i].input_index = transaction_outputs[k].output_index

\* A step in which handler s commits the atomic unit of its rollback.
CommitsRollback(s) ==
  req[s].pc = "validated" /\ req[s].op = "rollback" /\ req'[s].pc = "committed"

\* An output row without its spent flag.
Created(row) ==
  [transaction_id |-> row.transaction_id, output_index |-> row.output_index,
   address |-> row.address, value |-> row.value]

\* The outputs the transactions of the bodies create, as rows without flag.
OutputsOf(bodies) ==
  UNION { UNION { { [transaction_id |-> b.transactions[i].id, output_index |-> j - 1,
                     address |-> b.transactions[i].outputs[j].address,
                     value |-> b.transactions[i].outputs[j].value] :
                    j \in 1..Len(b.transactions[i].outputs) } :
                  i \in 1..Len(b.transactions) } :
          b \in bodies }

\* The stored output rows are, one row each, the outputs of the transactions
\* of the stored blocks.
OutputsAreThoseOfBlocks ==
  /\ { Created(transaction_outputs[k]) : k \in 1..Len(transaction_outputs) }
       = OutputsOf(payloads)
  /\ \A k, l \in 1..Len(transaction_outputs) :
       Created(transaction_outputs[k]) = Created(transaction_outputs[l]) => k = l
  /\ { [id |-> b.id, height |-> b.height] : b \in payloads } = blocks

RECURSIVE UndoneDownTo(_, _, _)
\* The store after the blocks of heights height, height - 1, .. down to
\* target + 1 are undone one after the other, the highest first.
UndoneDownTo(db, height, target) ==
  IF height <= target THEN db
  ELSE LET here == { b \in db.blocks : b.height = height }
           undone == IF here = {} THEN db ELSE rollbackBlock(db, CHOOSE b \in here : TRUE)
       IN  UndoneDownTo(undone, height - 1, target)

\* C18: the unit of rollbackToHeight(target) leaves the store that undoing the
\* blocks above target one by one in descending height order leaves; it removes
\* exactly these blocks with their transactions, inputs and outputs, and leaves every block
\* up to target with its transactions, input rows and output rows (address,
\* value, index) in place and in order; in every state the stored output rows
\* are exactly the outputs of the transactions of the stored blocks.
C18_RollbackFrame ==
  [][/\ \A s \in Handlers :
          CommitsRollback(s) =>
            LET target == req[s].targetHeight
                keptBlocks == { b \in blocks : b.height <= target }
                KeptTx(row) == \E b \in keptBlocks : row.block_id = b.id
                OfKeptTx(row) ==
                  \E i \in 1..Len(transactions) :
                    /\ transactions[i].id = row.transaction_id
                    /\ KeptTx(transactions[i])
                kept == SelectSeq(transaction_outputs, OfKeptTx)
            IN  /\ DB' = UndoneDownTo(DB, MaxHeight, target)
                /\ blocks' = keptBlocks
                /\ transactions' = SelectSeq(transactions, KeptTx)
                /\ transaction_inputs' = SelectSeq(transaction_inputs, OfKeptTx)
                /\ Len(transaction_outputs') = Len(kept)
                /\ \A k \in 1..Len(kept) :
                     Created(transaction_outputs'[k]) = Created(kept[k])
     /\ OutputsAreThoseOfBlocks']_vars

\* A rollback over two blocks has committed: the store holds block 1 only,
\* with its output row, after blocks 2 and 3 had spent and created outputs.
C18_Witness ==
  \E s \in Handlers :
    /\ req[s].pc = "committed"
    /\ req[s].op = "rollback"
    /\ req[s].targetHeight = 1
    /\ req[s].before.height = 3
    /\ { b.height : b \in blocks } = {1}
    /\ Len(transaction_outputs) = 1

\* The height of the stored block that holds the transaction, 0 if none does.
heightOf(txId) ==
  LET holders == { b \in blocks :
                     \E i \in 1..Len(transactions) :
                       transactions[i].id = txId /\ transactions[i].block_id = b.id }
  IN  IF holders = {} THEN 0 ELSE (CHOOSE b \in holders : TRUE).height

\* Every input row of the store references a stored output whose transaction
\* is in a block of strictly lower height than the input's transaction.
InputsSpendLowerHeights ==
  \A i \in 1..Len(transaction_inputs) :
    /\ \E k \in 1..Len(transaction_outputs) :
         /\ transaction_outputs[k].transaction_id = transaction_inputs[i].input_tx_id
         /\ transaction_outputs[k].output_index = transaction_inputs[i].input_index
    /\ heightOf(transaction_inputs[i].input_tx_id) >= 1
    /\ heightOf(transaction_inputs[i].input_tx_id) < heightOf(transaction_inputs[i].transaction_id)

\* C19: a body in which a transaction spends an output that only another
\* transaction of the same body creates never passes validation; when that is
\* its only fault it is refused with 'Invalid input reference' and nothing is
\* written; every input row of the store references an output created at a
\* strictly lower height.
C19_NoSpendWithinBlock ==
  [][/\ \A s \in Handlers :
          /\ AcceptsBlock(s) => ~hasInBlockInput(DB, req'[s].block)
          /\ (/\ Refuses(s) /\ reply'[s].op = "submit"
              /\ reply'[s].nextHeight /\ reply'[s].rightId
              /\ reply'[s].inBlock /\ ~reply'[s].mismatch) =>
               /\ reply'[s].error = "Invalid input reference"
               /\ DB' = DB
               /\ currentHeight' = currentHeight
     /\ InputsSpendLowerHeights']_vars

\* A body whose second transaction spends outputs of its first was refused
\* while the store holds an input that spends an output of a lower block.
C19_Witness ==
  \E s \in Handlers :
    /\ req[s].pc = "replying"
    /\ reply[s].error = "Invalid input reference"
    /\ reply[s].inBlock
    /\ transaction_inputs # <<>>

====
